---- MODULE Spec2Model ----
(***************************************************************************)
(* A model of the FPL question-answering pipeline: QASystem of             *)
(* qa_system.py (configuration merge, setup_document, validate_question,   *)
(* ask_question) and the document selection of its callers (app.py main,   *)
(* qa_system.py test_qa_system).                                           *)
(*                                                                         *)
(* Text is modelled as a sequence of one-character strings, so that the    *)
(* regular expressions, str.lower, str.title, str.split, str.endswith and  *)
(* int of the source are computed character by character.                  *)
(***************************************************************************)
EXTENDS Naturals, Integers, Sequences, FiniteSets, TLC

(***************************************************************************)
(* Characters and the str methods the source uses.                         *)
(***************************************************************************)
LowerLetters ==
  <<"a", "b", "c", "d", "e", "f", "g", "h", "i", "j", "k", "l", "m",
    "n", "o", "p", "q", "r", "s", "t", "u", "v", "w", "x", "y", "z">>

UpperLetters ==
  <<"A", "B", "C", "D", "E", "F", "G", "H", "I", "J", "K", "L", "M",
    "N", "O", "P", "Q", "R", "S", "T", "U", "V", "W", "X", "Y", "Z">>

Digits == <<"0", "1", "2", "3", "4", "5", "6", "7", "8", "9">>

Range(s) == {s[i] : i \in 1..Len(s)}

IndexOf(s, c) == CHOOSE i \in 1..Len(s) : s[i] = c

UpperSet == Range(UpperLetters)

LowerSet == Range(LowerLetters)

DigitSet == Range(Digits)

\* \w of the re module, on ASCII text
WordSet == UpperSet \cup LowerSet \cup DigitSet \cup {"_"}

ToLower == [c \in UpperSet |-> LowerLetters[IndexOf(UpperLetters, c)]]

ToUpper == [c \in LowerSet |-> UpperLetters[IndexOf(LowerLetters, c)]]

DigitValue == [c \in DigitSet |-> IndexOf(Digits, c) - 1]

IsUpper(c) == c \in UpperSet

IsLower(c) == c \in LowerSet

IsLetter(c) == IsUpper(c) \/ IsLower(c)

IsDigit(c) == c \in DigitSet

IsWordChar(c) == c \in WordSet

LowerChar(c) == IF IsUpper(c) THEN ToLower[c] ELSE c

UpperChar(c) == IF IsLower(c) THEN ToUpper[c] ELSE c

\* str.lower()
lower(s) == [i \in 1..Len(s) |-> LowerChar(s[i])]

\* str.title(): a letter that follows a non-letter is upper-cased, any other
\* letter is lower-cased
title(s) ==
  [i \in 1..Len(s) |->
     IF i = 1 \/ ~IsLetter(s[i - 1]) THEN UpperChar(s[i]) ELSE LowerChar(s[i])]

\* sub in s
str_in(sub, s) ==
  \E i \in 1..(Len(s) - Len(sub) + 1) : SubSeq(s, i, i + Len(sub) - 1) = sub

\* s.endswith(suffix)
endswith(s, suffix) ==
  /\ Len(suffix) <= Len(s)
  /\ SubSeq(s, Len(s) - Len(suffix) + 1, Len(s)) = suffix

\* s.split(sep)[-1] for a one-character sep: the text after the last sep
split_last(s, sep) ==
  LET seps == {i \in 1..Len(s) : s[i] = sep}
      from == IF seps = {} THEN 1
              ELSE (CHOOSE i \in seps : \A j \in seps : j <= i) + 1
  IN  SubSeq(s, from, Len(s))

RECURSIVE DecimalValue(_)
DecimalValue(s) ==
  IF s = <<>> THEN 0
  ELSE 10 * DecimalValue(SubSeq(s, 1, Len(s) - 1)) + DigitValue[s[Len(s)]]

RECURSIVE strip(_)
strip(s) ==
  IF s # <<>> /\ s[1] = " " THEN strip(Tail(s))
  ELSE IF s # <<>> /\ s[Len(s)] = " " THEN strip(SubSeq(s, 1, Len(s) - 1))
  ELSE s

\* int(s): the value of a decimal numeral (surrounding blanks allowed), and a
\* ValueError for any other text
int(s) ==
  LET t == strip(s) IN
  IF t # <<>> /\ \A i \in 1..Len(t) : IsDigit(t[i])
  THEN [exc |-> "none", value |-> DecimalValue(t)]
  ELSE [exc |-> "ValueError", value |-> 0]

(***************************************************************************)
(* The regular expressions of validate_question.  Each is a fixed-length   *)
(* run of character classes, optionally anchored by \b at either end.      *)
(***************************************************************************)
Lit(s) == [i \in 1..Len(s) |-> {s[i]}]

DigitsFrom(d) == {Digits[i] : i \in (IndexOf(Digits, d))..Len(Digits)}

Pattern(lead, body, trail) == [lead |-> lead, body |-> body, trail |-> trail]

\* \b between s[p-1] and s[p]
WordBoundary(s, p) ==
  LET w(j) == j \in 1..Len(s) /\ IsWordChar(s[j])
  IN  w(p - 1) # w(p)

MatchAt(pat, s, i) ==
  LET n == Len(pat.body) IN
  /\ i + n - 1 <= Len(s)
  /\ \A k \in 1..n : s[i + k - 1] \in pat.body[k]
  /\ pat.lead => WordBoundary(s, i)
  /\ pat.trail => WordBoundary(s, i + n)

\* re.search(pat, s) is not None
re_search(pat, s) == \E i \in 1..Len(s) : MatchAt(pat, s, i)

\* re.findall(pat, s): the non-overlapping matches, scanning left to right
RECURSIVE FindAllFrom(_, _, _)
FindAllFrom(pat, s, i) ==
  IF i > Len(s) THEN <<>>
  ELSE IF MatchAt(pat, s, i)
       THEN <<SubSeq(s, i, i + Len(pat.body) - 1)>>
            \o FindAllFrom(pat, s, i + Len(pat.body))
       ELSE FindAllFrom(pat, s, i + 1)

re_findall(pat, s) == FindAllFrom(pat, s, 1)

\* r'\b(20\d{2})\b'
year_pattern ==
  Pattern(TRUE, <<{"2"}, {"0"}, DigitsFrom("0"), DigitsFrom("0")>>, TRUE)

recent_patterns ==
  << \* r'202[3-9]'
     Pattern(FALSE, <<{"2"}, {"0"}, {"2"}, DigitsFrom("3")>>, FALSE),
     \* r'2024[/-]202[5-9]'
     Pattern(FALSE, <<{"2"}, {"0"}, {"2"}, {"4"}, {"/", "-"},
                      {"2"}, {"0"}, {"2"}, DigitsFrom("5")>>, FALSE),
     \* r'current'
     Pattern(FALSE, Lit(<<"c", "u", "r", "r", "e", "n", "t">>), FALSE),
     \* r'\bnow\b'
     Pattern(TRUE, Lit(<<"n", "o", "w">>), TRUE),
     \* r'\btoday\b'
     Pattern(TRUE, Lit(<<"t", "o", "d", "a", "y">>), TRUE),
     \* r'\blatest\b'
     Pattern(TRUE, Lit(<<"l", "a", "t", "e", "s", "t">>), TRUE),
     \* r'\brecent\b'
     Pattern(TRUE, Lit(<<"r", "e", "c", "e", "n", "t">>), TRUE),
     \* r'\bthis season\b'
     Pattern(TRUE, Lit(<<"t", "h", "i", "s", " ", "s", "e", "a", "s", "o", "n">>), TRUE) >>

modern_players ==
  << <<"h", "a", "a", "l", "a", "n", "d">>,
     <<"n", "u", "n", "e", "z">>,
     <<"a", "n", "t", "o", "n", "y">>,
     <<"c", "a", "s", "e", "m", "i", "r", "o">>,
     <<"t", "c", "h", "o", "u", "a", "m", "e", "n", "i">> >>

(***************************************************************************)
(* validate_question.  A warning is the sequence of the parts of its       *)
(* f-string, literal text as a string and interpolated text as characters. *)
(* A call returns [exc |-> "none", value |-> warnings] or raises           *)
(* [exc |-> "ValueError"].                                                 *)
(***************************************************************************)
YearWarning(year, data_year) ==
  <<"Question mentions ", year, ", but our data is from ", data_year>>

RecentWarning(data_year) ==
  <<"Question asks about current/recent data, but our dataset is from ", data_year>>

PlayerWarning(player, data_year) ==
  <<"Question asks about ", title(player), ", who likely wasn't in the ",
    data_year, " season">>

Return(v) == [exc |-> "none", value |-> v]

Raise(e) == [exc |-> e, value |-> <<>>]

\* for year in years: if int(year) > int(self.data_year.split("-")[-1]): append
RECURSIVE year_loop(_, _, _, _)
year_loop(years, i, data_year, warnings) ==
  IF i > Len(years) THEN Return(warnings)
  ELSE LET y == int(years[i])
           t == int(split_last(data_year, "-"))
       IN  IF y.exc # "none" THEN Raise(y.exc)
           ELSE IF t.exc # "none" THEN Raise(t.exc)
           ELSE IF y.value > t.value
                THEN year_loop(years, i + 1, data_year,
                               Append(warnings, YearWarning(years[i], data_year)))
                ELSE year_loop(years, i + 1, data_year, warnings)

\* recent_loop without its break: every matching pattern appends a warning
RECURSIVE recent_loop_no_break(_, _, _, _)
recent_loop_no_break(question, i, data_year, warnings) ==
  IF i > Len(recent_patterns) THEN warnings
  ELSE IF re_search(recent_patterns[i], lower(question))
       THEN recent_loop_no_break(question, i + 1, data_year,
                                 Append(warnings, RecentWarning(data_year)))
       ELSE recent_loop_no_break(question, i + 1, data_year, warnings)

\* for pattern in recent_patterns: if re.search(...): append; break
RECURSIVE recent_loop(_, _, _, _)
recent_loop(question, i, data_year, warnings) ==
  IF i > Len(recent_patterns) THEN warnings
  ELSE IF re_search(recent_patterns[i], lower(question))
       THEN Append(warnings, RecentWarning(data_year))
       ELSE recent_loop(question, i + 1, data_year, warnings)

\* for player in modern_players: if player in question.lower(): append
RECURSIVE player_loop(_, _, _, _)
player_loop(question, i, data_year, warnings) ==
  IF i > Len(modern_players) THEN warnings
  ELSE IF str_in(modern_players[i], lower(question))
       THEN player_loop(question, i + 1, data_year,
                        Append(warnings, PlayerWarning(modern_players[i], data_year)))
       ELSE player_loop(question, i + 1, data_year, warnings)

\* validate_question with the denylist check run before the recency check
validate_question_players_first(self, question) ==
  LET years == re_findall(year_pattern, question)
      w1 == year_loop(years, 1, self.data_year, <<>>)
  IN  IF w1.exc # "none" THEN w1
      ELSE Return(recent_loop(question, 1, self.data_year,
                    player_loop(question, 1, self.data_year, w1.value)))

validate_question(self, question) ==
  LET years == re_findall(year_pattern, question)
      w1 == year_loop(years, 1, self.data_year, <<>>)
  IN  IF w1.exc # "none" THEN w1
      ELSE Return(player_loop(question, 1, self.data_year,
                    recent_loop(question, 1, self.data_year, w1.value)))

(***************************************************************************)
(* QASystem.  The object is the record qa_system; a call is an operator    *)
(* giving the object after the call and what the caller sees.              *)
(***************************************************************************)
None == [none |-> TRUE]

default_config ==
  [show_validation |-> TRUE,
   verbose |-> TRUE,
   llm_model |-> "gpt-3.5-turbo",
   temperature |-> "0.1",
   retrieval_k |-> 3,
   data_year |-> <<"2", "0", "1", "9", "-", "2", "0">>]

\* {**default_config, **(config or {})}
dict_merge(d, c) ==
  [k \in (DOMAIN d) \cup (DOMAIN c) |-> IF k \in DOMAIN c THEN c[k] ELSE d[k]]

\* QASystem.__init__(config)
QASystem(config_arg) ==
  LET config == dict_merge(default_config, config_arg) IN
  [config |-> config,
   show_validation |-> config["show_validation"],
   verbose |-> config["verbose"],
   data_year |-> config["data_year"],
   llm |-> [model |-> config["llm_model"], temperature |-> config["temperature"]],
   vectorstore |-> None,
   qa_chain |-> None]

\* RetrievalQA.from_chain_type(llm=self.llm, retriever=self.vectorstore.as_retriever(k), prompt)
RetrievalQA(self) ==
  [llm |-> self.llm,
   retriever |-> self.vectorstore,
   k |-> self.config["retrieval_k"],
   prompt_data_year |-> self.data_year]

\* The stage at which a setup_document call raises ("none": it completes)
SetupFailures == {"none", "load_document", "split_documents", "create_embeddings", "from_chain_type"}

\* setup_document(pdf_path) with the collaborators failing at stage fail; index
\* is the vector store create_embeddings would return
setup_document(self, index, fail) ==
  IF fail \in {"load_document", "split_documents", "create_embeddings"}
  THEN [self |-> self, exc |-> fail]
  ELSE LET s1 == [self EXCEPT !.vectorstore = index] IN
       IF fail = "from_chain_type"
       THEN [self |-> s1, exc |-> fail]
       ELSE [self |-> [s1 EXCEPT !.qa_chain = RetrievalQA(s1)], exc |-> "none"]

NotReadyMessage == "Please setup a document first!"

\* ask_question(question); generated is the text the chain returns, or
\* "GenerationServiceError" when the chain's invoke raises
ask_question(self, question, generated) ==
  IF self.qa_chain = None
  THEN [exc |-> "none", value |-> NotReadyMessage, invoked |-> 0]
  ELSE LET first == IF self.show_validation
                    THEN validate_question(self, question)
                    ELSE Return(<<>>)
       IN  IF first.exc # "none"
           THEN [exc |-> first.exc, value |-> "", invoked |-> 0]
           ELSE IF generated = "GenerationServiceError"
           THEN [exc |-> generated, value |-> "", invoked |-> 1]
           ELSE LET second == IF self.show_validation
                              THEN validate_question(self, question)
                              ELSE Return(<<>>)
                IN  IF second.exc # "none"
                    THEN [exc |-> second.exc, value |-> "", invoked |-> 1]
                    ELSE [exc |-> "none", value |-> generated, invoked |-> 1]

(***************************************************************************)
(* Inputs: caller configurations, question texts, the documents folder.    *)
(***************************************************************************)
\* A bound: the number of vector stores built in one run
MaxBuilds == 2

\* A bound: the number of vocabulary fragments in a generated question
MaxFrags == 3

DataYears == {<<"2", "0", "1", "9", "-", "2", "0">>,
              <<"2", "0", "1", "9", "-", "2", "0", "2", "0">>,
              <<"2", "0", "2", "2", "-", "2", "3">>,
              <<"2", "0", "1", "9", "/", "2", "0">>}

\* config of app.py main
app_config ==
  [show_validation |-> TRUE,
   verbose |-> FALSE,
   model |-> "gpt-3.5-turbo",
   temperature |-> "0.1",
   retrieval_k |-> 3,
   data_year |-> <<"2", "0", "1", "9", "-", "2", "0">>]

\* config of test_qa_system
test_config ==
  [show_validation |-> TRUE,
   verbose |-> TRUE,
   llm_model |-> "gpt-4",
   temperature |-> "0.2",
   retrieval_k |-> 5,
   data_year |-> <<"2", "0", "1", "9", "-", "2", "0">>]

\* The configurations a caller passes: none, the two of the source, and single
\* options overridden alone
CallerConfigs ==
  {<<>>, app_config, test_config,
   [show_validation |-> FALSE], [model |-> "gpt-4"], [retrieval_k |-> 5],
   [data_year |-> <<"2", "0", "1", "9", "/", "2", "0">>]}

\* Question texts of the source and of its specification
SourceQuestions ==
  {<<>>,
   <<"W", "h", "a", "t", " ", "i", "s", " ", "H", "a", "a", "l", "a", "n", "d", "'", "s", " ", "p", "r", "i", "c", "e", " ", "i", "n", " ", "2", "0", "2", "5", "?">>,
   <<"W", "h", "o", " ", "i", "s", " ", "t", "h", "e", " ", "m", "o", "s", "t", " ", "e", "x", "p", "e", "n", "s", "i", "v", "e", " ", "m", "i", "d", "f", "i", "e", "l", "d", "e", "r", "?">>,
   <<"W", "h", "a", "t", "'", "s", " ", "t", "h", "e", " ", "l", "a", "t", "e", "s", "t", " ", "n", "e", "w", "s", " ", "o", "n", " ", "t", "r", "a", "n", "s", "f", "e", "r", "s", "?">>,
   <<"W", "h", "o", " ", "i", "s", " ", "t", "h", "e", " ", "b", "e", "s", "t", " ", "M", "a", "n", "c", "h", "e", "s", "t", "e", "r", " ", "U", "n", "i", "t", "e", "d", " ", "p", "l", "a", "y", "e", "r", " ", "i", "n", " ", "2", "0", "2", "4", "/", "2", "0", "2", "5", " ", "s", "e", "a", "s", "o", "n", "?">>,
   <<"W", "h", "o", " ", "s", "c", "o", "r", "e", "d", " ", "m", "o", "s", "t", " ", "i", "n", " ", "2", "0", "1", "9", "?">>}

\* Fragments a generated question is put together from
Vocabulary ==
  {<<"2", "0", "1", "9">>,
   <<"2", "0", "2", "5">>,
   <<"1">>,
   <<" ">>,
   <<"s">>,
   <<"N", "o", "w">>,
   <<"H", "a", "a", "l", "a", "n", "d", " ">>,
   <<"n", "u", "n", "e", "z">>}

RECURSIVE Phrases(_)
Phrases(n) ==
  IF n = 0 THEN {<<>>}
  ELSE LET shorter == Phrases(n - 1)
       IN  shorter \cup {p \o f : p \in shorter, f \in Vocabulary}

Questions == SourceQuestions \cup Phrases(MaxFrags)

\* The questions put to a pipeline under test
AskedQuestions ==
  {<<>>,
   <<"N", "u", "n", "e", "z", " ", "i", "n", " ", "2", "0", "2", "5", "?">>,
   <<"c", "h", "e", "a", "p", "e", "s", "t", " ", "f", "o", "r", "w", "a", "r", "d", "s">>}

FileNames ==
  {<<"a", ".", "p", "d", "f">>,
   <<"b", ".", "p", "d", "f">>,
   <<"n", "o", "t", "e", "s", ".", "t", "x", "t">>}

\* A name no folder holds
MissingFile == <<"m", "i", "s", "s", "i", "n", "g", ".", "p", "d", "f">>

documents_folder == <<"d", "o", "c", "u", "m", "e", "n", "t", "s">>

\* os.path.join(folder, f)
path_join(folder, f) == folder \o <<"/">> \o f

\* The orders in which os.listdir may return the names of a folder
Listings(files) ==
  {l \in [1..Cardinality(files) -> files] : \A f \in files : \E i \in DOMAIN l : l[i] = f}

\* [f for f in os.listdir(documents_folder) if f.endswith('.pdf')]
IsPdf(f) == endswith(f, <<".", "p", "d", "f">>)

pdf_files_of(listing) == SelectSeq(listing, IsPdf)

Generated == {"generated answer", "GenerationServiceError"}

(***************************************************************************)
(* State.                                                                  *)
(*   qa_system        the QASystem object (None before app.py builds one)  *)
(*   session_state    st.session_state of app.py                           *)
(*   documents        the file names in the documents folder               *)
(*   inputs           the question texts the caller may pass               *)
(*   builds           the number of vector stores built so far             *)
(*   caller_config    the config argument qa_system was constructed with   *)
(*   setup_completed  a setup_document call on qa_system has completed     *)
(*   selected         the pdf paths the document selection has produced    *)
(*   last             the last call: its argument, the object before it,   *)
(*                    and what the caller saw                              *)
(***************************************************************************)
VARIABLES qa_system, session_state, documents, inputs, builds, caller_config,
          setup_completed, selected, last

vars == <<qa_system, session_state, documents, inputs, builds, caller_config,
          setup_completed, selected, last>>

Call(op, arg, before, exc, warnings, answer, invoked) ==
  [op |-> op, arg |-> arg, before |-> before, exc |-> exc,
   warnings |-> warnings, answer |-> answer, invoked |-> invoked]

NewIndex(pdf_path) == [doc |-> pdf_path, build |-> builds + 1]

Builds(fail) == fail \in {"none", "from_chain_type"}

\* A QASystem constructed with any caller configuration, over a folder holding
\* every file name
Init ==
  /\ caller_config \in CallerConfigs
  /\ qa_system = QASystem(caller_config)
  /\ session_state = [qa_system |-> FALSE, document_loaded |-> FALSE]
  /\ documents = FileNames
  /\ inputs = AskedQuestions
  /\ builds = 0
  /\ setup_completed = FALSE
  /\ selected = {}
  /\ last = Call("__init__", <<>>, QASystem(caller_config), "none", <<>>, "", 0)

\* qa_system.setup_document(pdf_path): a path that is not in the folder fails
\* to load; any collaborator may fail
SetupDocument ==
  \E f \in {d \in documents : IsPdf(d)} \cup {MissingFile}, fail \in SetupFailures :
    LET pdf_path == path_join(documents_folder, f)
        r == setup_document(qa_system, NewIndex(pdf_path), fail)
    IN  /\ f \notin documents => fail = "load_document"
        /\ Builds(fail) => builds < MaxBuilds
        /\ qa_system' = r.self
        /\ builds' = IF Builds(fail) THEN builds + 1 ELSE builds
        /\ setup_completed' = (setup_completed \/ r.exc = "none")
        /\ last' = Call("setup_document", pdf_path, qa_system, r.exc, <<>>, "", 0)
        /\ UNCHANGED <<session_state, documents, inputs, caller_config, selected>>

\* qa_system.validate_question(question)
ValidateQuestion ==
  \E question \in inputs :
    LET r == validate_question(qa_system, question)
    IN  /\ last' = Call("validate_question", question, qa_system, r.exc, r.value, "", 0)
        /\ UNCHANGED <<qa_system, session_state, documents, inputs, builds,
                       caller_config, setup_completed, selected>>

\* qa_system.ask_question(question)
AskQuestion ==
  \E question \in inputs, generated \in Generated :
    LET r == ask_question(qa_system, question, generated)
    IN  /\ last' = Call("ask_question", question, qa_system, r.exc, <<>>, r.value, r.invoked)
        /\ UNCHANGED <<qa_system, session_state, documents, inputs, builds,
                       caller_config, setup_completed, selected>>

Next == SetupDocument \/ ValidateQuestion \/ AskQuestion

Spec == Init /\ [][Next]_vars

(***************************************************************************)
(* validate_question as a function of the question text and data_year:     *)
(* every generated question, against every data_year label.                *)
(***************************************************************************)
InitValidate ==
  /\ caller_config \in {[data_year |-> d] : d \in DataYears}
  /\ qa_system = QASystem(caller_config)
  /\ session_state = [qa_system |-> FALSE, document_loaded |-> FALSE]
  /\ documents = FileNames
  /\ \E question \in Questions : inputs = {question}
  /\ builds = 0
  /\ setup_completed = FALSE
  /\ selected = {}
  /\ last = Call("__init__", <<>>, QASystem(caller_config), "none", <<>>, "", 0)

NextValidate == ValidateQuestion

SpecValidate == InitValidate /\ [][NextValidate]_vars

(***************************************************************************)
(* app.py main: the "Load FPL Document" and "Get Answer" handlers over     *)
(* st.session_state, for any content of the documents folder.              *)
(***************************************************************************)
InitApp ==
  /\ caller_config = app_config
  /\ qa_system = None
  /\ session_state = [qa_system |-> FALSE, document_loaded |-> FALSE]
  /\ documents \in SUBSET FileNames
  /\ inputs = AskedQuestions
  /\ builds = 0
  /\ setup_completed = FALSE
  /\ selected = {}
  /\ last = Call("main", <<>>, None, "none", <<>>, "", 0)

\* if st.button("Load FPL Document"): a new QASystem, the first pdf of the
\* listing, setup_document; the session keeps the new object only when all
\* of it succeeded
LoadDocument ==
  \E listing \in Listings(documents), fail \in SetupFailures :
    LET new == QASystem(app_config)
        pdf_files == pdf_files_of(listing)
    IN  IF pdf_files # <<>>
        THEN LET pdf_path == path_join(documents_folder, pdf_files[1])
                 r == setup_document(new, NewIndex(pdf_path), fail)
             IN  /\ Builds(fail) => builds < MaxBuilds
                 /\ builds' = IF Builds(fail) THEN builds + 1 ELSE builds
                 /\ selected' = selected \cup {pdf_path}
                 /\ last' = Call("load_document", pdf_path, qa_system, r.exc, <<>>, "", 0)
                 /\ IF r.exc = "none"
                    THEN /\ qa_system' = r.self
                         /\ session_state' = [qa_system |-> TRUE, document_loaded |-> TRUE]
                         /\ setup_completed' = TRUE
                    ELSE UNCHANGED <<qa_system, session_state, setup_completed>>
                 /\ UNCHANGED <<documents, inputs, caller_config>>
        ELSE /\ fail = "none"
             /\ last' = Call("load_document", <<>>, qa_system, "No PDF files found", <<>>, "", 0)
             /\ UNCHANGED <<qa_system, session_state, documents, inputs, builds,
                            caller_config, setup_completed, selected>>

\* if st.button("Get Answer"): shown once a document is loaded
GetAnswer ==
  /\ session_state.document_loaded
  /\ \E question \in inputs, generated \in Generated :
       LET v == IF qa_system.show_validation
                THEN validate_question(qa_system, question)
                ELSE Return(<<>>)
           a == ask_question(qa_system, question, generated)
       IN  /\ last' =
                IF question = <<>>
                THEN Call("get_answer", question, qa_system, "Please enter a question!", <<>>, "", 0)
                ELSE IF v.exc # "none"
                THEN Call("get_answer", question, qa_system, v.exc, <<>>, "", 0)
                ELSE Call("get_answer", question, qa_system, a.exc, v.value, a.value, a.invoked)
           /\ UNCHANGED <<qa_system, session_state, documents, inputs, builds,
                          caller_config, setup_completed, selected>>

NextApp == LoadDocument \/ GetAnswer

SpecApp == InitApp /\ [][NextApp]_vars

(***************************************************************************)
(* Properties.  They read the last call: last.arg is its argument,         *)
(* last.before the object it was made on, last.exc what it raised.         *)
(***************************************************************************)
Uninitialized(o) == o.vectorstore = None /\ o.qa_chain = None

Ready(o) == o.vectorstore # None /\ o.qa_chain # None

ValidateReturned == last.op = "validate_question" /\ last.exc = "none"

Count(ws, w) == Cardinality({i \in DOMAIN ws : ws[i] = w})

\* pat matches s at i when letter case is ignored (the patterns are lower case)
MatchAtIgnoringCase(pat, s, i) ==
  LET n == Len(pat.body) IN
  /\ i + n - 1 <= Len(s)
  /\ \A k \in 1..n : LowerChar(s[i + k - 1]) \in pat.body[k]
  /\ pat.lead => WordBoundary(s, i)
  /\ pat.trail => WordBoundary(s, i + n)

RecencyPatternsMatching(s) ==
  {p \in DOMAIN recent_patterns :
     \E i \in 1..Len(s) : MatchAtIgnoringCase(recent_patterns[p], s, i)}

ContainsIgnoringCase(name, s) ==
  \E i \in 1..(Len(s) - Len(name) + 1) :
    \A k \in 1..Len(name) : LowerChar(s[i + k - 1]) = name[k]

\* The tokens of s that pat matches, by position
TokensOf(pat, s) ==
  LET at == {i \in 1..Len(s) : MatchAt(pat, s, i)}
      nth(k) == CHOOSE i \in at : Cardinality({j \in at : j < i}) = k - 1
  IN  [k \in 1..Cardinality(at) |-> SubSeq(s, nth(k), nth(k) + Len(pat.body) - 1)]

\* \b\d{4}\b: a 4-digit token
four_digits == Pattern(TRUE, <<DigitSet, DigitSet, DigitSet, DigitSet>>, TRUE)

RECURSIVE IsSubsequence(_, _)
IsSubsequence(a, b) ==
  IF a = <<>> THEN TRUE
  ELSE IF b = <<>> THEN FALSE
  ELSE IF a[1] = b[1] THEN IsSubsequence(Tail(a), Tail(b))
  ELSE IsSubsequence(a, Tail(b))

IsYearWarning(w) == w[1] = "Question mentions "

IsRecentWarning(w) == Len(w) = 2

IsPlayerWarning(w) == w[1] = "Question asks about "

Rank(w) == IF IsYearWarning(w) THEN 1 ELSE IF IsRecentWarning(w) THEN 2 ELSE 3

WarnedYears(ws) ==
  LET ys == SelectSeq(ws, IsYearWarning) IN [i \in DOMAIN ys |-> ys[i][2]]

Haaland2025 == <<"W", "h", "a", "t", " ", "i", "s", " ", "H", "a", "a", "l", "a", "n", "d", "'", "s", " ", "p", "r", "i", "c", "e", " ", "i", "n", " ", "2", "0", "2", "5", "?">>

\* C1: ask_question on a QASystem on which no setup_document call has
\* completed raises NotReadyError: it returns no answer text and does not
\* invoke the chain.
C1_AskBeforeSetupRaises ==
  (last.op = "ask_question" /\ ~setup_completed)
    => (last.exc = "NotReadyError" /\ last.answer = "" /\ last.invoked = 0)

\* C2: the pipeline is Uninitialized (vectorstore and qa_chain unset) or
\* Ready; it starts Uninitialized, becomes Ready only by a setup_document call
\* that completes, stays Uninitialized when a setup_document call fails, never
\* leaves Ready, and a completed setup_document installs the index it built.
C2_UninitializedThenReady ==
  /\ Uninitialized(qa_system) \/ Ready(qa_system)
  /\ last.op = "__init__" => Uninitialized(qa_system)
  /\ (Uninitialized(last.before) /\ Ready(qa_system))
       => (last.op = "setup_document" /\ last.exc = "none")
  /\ (last.op = "setup_document" /\ last.exc # "none" /\ Uninitialized(last.before))
       => Uninitialized(qa_system)
  /\ Ready(last.before) => Ready(qa_system)
  /\ (last.op = "setup_document" /\ last.exc = "none")
       => /\ qa_system.vectorstore = [doc |-> last.arg, build |-> builds]
          /\ qa_system.vectorstore # last.before.vectorstore

\* C3: with data_year "2019-20" (terminal year 2020), validate_question warns
\* about a 4-digit year token exactly when the year is greater than 2020, once
\* per such token, naming the year and data_year.
C3_YearWarningIffBeyondTerminalYear ==
  (ValidateReturned /\ last.before.data_year = default_config.data_year)
    => LET tokens == TokensOf(four_digits, last.arg) IN
       \A t \in DOMAIN tokens :
         Count(last.warnings, YearWarning(tokens[t], last.before.data_year))
           = IF DecimalValue(tokens[t]) > 2020
             THEN Count(tokens, tokens[t])
             ELSE 0

\* C4: validate_question returns exactly one recency warning when at least one
\* recency pattern matches the question case-insensitively, however many
\* match, and none otherwise; and a recency match does not keep a denylisted
\* player in the question from being warned about.
C4_OneRecencyWarning ==
  ValidateReturned
    => /\ Count(last.warnings, RecentWarning(last.before.data_year))
            = IF RecencyPatternsMatching(last.arg) # {} THEN 1 ELSE 0
       /\ \A p \in DOMAIN modern_players :
            (RecencyPatternsMatching(last.arg) # {}
               /\ ContainsIgnoringCase(modern_players[p], last.arg))
              => Count(last.warnings,
                       PlayerWarning(modern_players[p], last.before.data_year)) = 1

\* C4's case: two recency patterns match a question that names a denylisted
\* player, and one recency warning is returned.
C4_Witness ==
  /\ ValidateReturned
  /\ Cardinality(RecencyPatternsMatching(last.arg)) >= 2
  /\ \E p \in DOMAIN modern_players : ContainsIgnoringCase(modern_players[p], last.arg)
  /\ Count(last.warnings, RecentWarning(last.before.data_year)) = 1

\* C5: the list validate_question returns is the year warnings in the order
\* their tokens occur in the question, then the recency warning if a recency
\* pattern matches, then one warning per denylisted player the question
\* contains, in denylist order, whatever the other checks found; and
\* "What is Haaland's price in 2025?" gets a year warning for 2025 and a
\* player warning for Haaland.
C5_WarningsAreTheThreeChecksInOrder ==
  ValidateReturned
    => LET ws == last.warnings
           q == last.arg
           dy == last.before.data_year
           named == SelectSeq(modern_players, LAMBDA n : ContainsIgnoringCase(n, q))
       IN  /\ \A i, j \in DOMAIN ws : i < j => Rank(ws[i]) <= Rank(ws[j])
           /\ IsSubsequence(WarnedYears(ws), TokensOf(year_pattern, q))
           /\ \A i \in DOMAIN ws : IsYearWarning(ws[i]) => ws[i] = YearWarning(ws[i][2], dy)
           /\ SelectSeq(ws, IsRecentWarning)
                = IF RecencyPatternsMatching(q) # {} THEN <<RecentWarning(dy)>> ELSE <<>>
           /\ SelectSeq(ws, IsPlayerWarning)
                = [i \in DOMAIN named |-> PlayerWarning(named[i], dy)]
           /\ (q = Haaland2025 /\ dy = default_config.data_year)
                => /\ Count(ws, YearWarning(<<"2", "0", "2", "5">>, dy)) = 1
                   /\ Count(ws, PlayerWarning(modern_players[1], dy)) = 1

\* C5's case: a question naming nunez before Haaland, with a year token and a
\* recency match, gets the four warnings with Haaland's before Nunez's.
C5_Witness ==
  /\ ValidateReturned
  /\ Len(last.warnings) = 4
  /\ IsYearWarning(last.warnings[1])
  /\ IsRecentWarning(last.warnings[2])
  /\ last.warnings[3] = PlayerWarning(modern_players[1], last.before.data_year)
  /\ last.warnings[4] = PlayerWarning(modern_players[2], last.before.data_year)
  /\ SubSeq(last.arg, 1, 5) = modern_players[2]

\* C6: validate_question returns a list without raising, whatever the pipeline
\* state and the question, changes nothing of the object, invokes no
\* collaborator, and returns the same list when called again.
C6_ValidateIsPure ==
  last.op = "validate_question"
    => /\ last.exc = "none"
       /\ qa_system = last.before
       /\ last.invoked = 0
       /\ validate_question(qa_system, last.arg) = Return(last.warnings)

\* The options the configuration recognises, the value the pipeline uses for
\* each, and its default
RecognisedOptions ==
  {"show_validation", "verbose", "model", "temperature", "retrieval_k", "data_year"}

Effective(o) ==
  CASE o = "show_validation" -> qa_system.show_validation
    [] o = "verbose" -> qa_system.verbose
    [] o = "model" -> qa_system.llm.model
    [] o = "temperature" -> qa_system.llm.temperature
    [] o = "retrieval_k" -> qa_system.config["retrieval_k"]
    [] o = "data_year" -> qa_system.data_year

DocumentedDefault(o) ==
  IF o = "model" THEN default_config["llm_model"] ELSE default_config[o]

\* C7: each recognised option takes the caller's value when the caller's
\* config holds it and the default otherwise; the model identifier is the one
\* the generation collaborator is built with.
C7_CallerValueOverridesDefault ==
  /\ \A o \in RecognisedOptions :
       Effective(o) = IF o \in DOMAIN caller_config
                      THEN caller_config[o]
                      ELSE DocumentedDefault(o)
  /\ qa_system.qa_chain # None
       => /\ qa_system.qa_chain.llm.model = Effective("model")
          /\ qa_system.qa_chain.k = Effective("retrieval_k")

\* C8: an ask_question call on a Ready pipeline invokes the chain exactly
\* once, whether or not the question draws warnings.
C8_ReadyAskInvokesChainOnce ==
  (last.op = "ask_question" /\ last.before.qa_chain # None) => last.invoked = 1

\* C9: over one folder, the document selected does not depend on the order in
\* which the directory listing returns the names.
C9_SelectionIgnoresListingOrder == Cardinality(selected) <= 1

\* C10: whenever qa_chain is set, vectorstore is set and the chain's retriever
\* searches the index held in vectorstore.
C10_ChainSearchesCurrentIndex ==
  qa_system.qa_chain # None
    => /\ qa_system.vectorstore # None
       /\ qa_system.qa_chain.retriever = qa_system.vectorstore
====
